---- MODULE Spec2Model ----
(***************************************************************************)
(* Model of backend/AppCarro_backend.py: the angle utilities, the          *)
(* calibration core, the process-wide calibration cache STATE and the      *)
(* Flask handlers that read and replace it.                                *)
(*                                                                         *)
(* Numbers.  Angles are integer degrees.  Sines and cosines are fixed      *)
(* point numbers with Unit standing for 1.0; atan2D rounds to the nearest  *)
(* degree.  Coordinates and distances are integers.  The inputs are chosen *)
(* so that the angles are exact at this resolution: the targets lie on the *)
(* axes and diagonals of the cameras, and the vertical residuals of a      *)
(* configuration sum to a multiple of its length (ajuste_av is a float     *)
(* division in the code, an integer division here).                        *)
(*                                                                         *)
(* Requests.  Each handler is a sequence of steps, one per access to       *)
(* config.json or to STATE; what a handler computes on its locals between  *)
(* two accesses belongs to the step before.  Spec serves one request at a  *)
(* time; SpecConc lets the threads of Flask's server interleave.  STATE is *)
(* not loaded at start, as when the module is imported by a WSGI server;   *)
(* the ensure_state() of __main__ is the ensure_state of a first request.  *)
(* save_config's write and dict.update are each one step.                  *)
(***************************************************************************)
EXTENDS Integers, Sequences, FiniteSets, TLC

VARIABLES
    file,      \* contents of config.json (CONFIG_PATH), or NoFile
    State,     \* the module-level dict STATE (STATE is a reserved word of TLA+)
    pc,        \* pc[t]: where request thread t stands in its handler
    loc,       \* loc[t]: the locals of thread t's handler
    pre,       \* pre[t]: STATE as it was when thread t's request began
    good,      \* the calibrate result last published into STATE, if any
    published, \* every calibrate result published into STATE so far
    probe      \* the input and results of a pure function applied on its own

vars == <<file, State, pc, loc, pre, good, published, probe>>

-----------------------------------------------------------------------------
(* Bounds *)

MaxPts == 2          \* longest list of collimation points
MaxDeg == 725        \* angle arguments range over -MaxDeg..MaxDeg
MaxTurns == 2        \* periodicity is checked for k in -MaxTurns..MaxTurns
NThreads == 2        \* request threads

-----------------------------------------------------------------------------
(* math.sin, math.cos, math.atan2, math.sqrt at the model's resolution *)

SinTable ==
    << 0, 175, 349, 523, 698, 872, 1045, 1219, 1392, 1564,
       1736, 1908, 2079, 2250, 2419, 2588, 2756, 2924, 3090, 3256,
       3420, 3584, 3746, 3907, 4067, 4226, 4384, 4540, 4695, 4848,
       5000, 5150, 5299, 5446, 5592, 5736, 5878, 6018, 6157, 6293,
       6428, 6561, 6691, 6820, 6947, 7071, 7193, 7314, 7431, 7547,
       7660, 7771, 7880, 7986, 8090, 8192, 8290, 8387, 8480, 8572,
       8660, 8746, 8829, 8910, 8988, 9063, 9135, 9205, 9272, 9336,
       9397, 9455, 9511, 9563, 9613, 9659, 9703, 9744, 9781, 9816,
       9848, 9877, 9903, 9925, 9945, 9962, 9976, 9986, 9994, 9998,
       10000 >>

\* 1.0 in fixed point
Unit == SinTable[91]

Abs(x) == IF x < 0 THEN -x ELSE x

\* math.sin(d2r(a)) for an integer number of degrees a
sinD(a) ==
    LET m == a % 360
    IN  IF m <= 90 THEN SinTable[m + 1]
        ELSE IF m <= 180 THEN SinTable[180 - m + 1]
        ELSE IF m <= 270 THEN -SinTable[m - 180 + 1]
        ELSE -SinTable[360 - m + 1]

\* math.cos(d2r(a))
cosD(a) == sinD(a + 90)

\* the largest d in lo..hi with (y, x) at or past direction d (y, x >= 0)
RECURSIVE FloorAngle(_, _, _, _)
FloorAngle(y, x, lo, hi) ==
    IF lo >= hi THEN lo
    ELSE LET mid == (lo + hi + 1) \div 2
         IN  IF y * cosD(mid) - x * sinD(mid) >= 0
             THEN FloorAngle(y, x, mid, hi)
             ELSE FloorAngle(y, x, lo, mid - 1)

\* the angle in 0..90 of the vector (y, x), y >= 0, x >= 0, not both 0
QuadrantAngle(y, x) ==
    LET d == FloorAngle(y, x, 0, 90)
        cross(e) == Abs(y * cosD(e) - x * sinD(e))
    IN  IF d < 90 /\ cross(d + 1) < cross(d) THEN d + 1 ELSE d

\* r2d(math.atan2(y, x)): in (-180, 180], and atan2(0, 0) = 0
atan2D(y, x) ==
    IF y = 0 /\ x = 0 THEN 0
    ELSE LET q == QuadrantAngle(Abs(y), Abs(x))
         IN  IF x >= 0 /\ y >= 0 THEN q
             ELSE IF x < 0 /\ y >= 0 THEN 180 - q
             ELSE IF x < 0 /\ y < 0 THEN IF q = 0 THEN 180 ELSE q - 180
             ELSE -q

\* the integer square root
RECURSIVE SqrtSearch(_, _, _)
SqrtSearch(n, lo, hi) ==
    IF lo >= hi THEN lo
    ELSE LET mid == (lo + hi + 1) \div 2
         IN  IF mid * mid <= n THEN SqrtSearch(n, mid, hi)
             ELSE SqrtSearch(n, lo, mid - 1)

Isqrt(n) == SqrtSearch(n, 0, 46340)

-----------------------------------------------------------------------------
(* Geomensura utils *)

\* Python's float % with a positive modulus: the result is in [0, m)
PyMod(a, m) == a % m

\* wrap360 without the modulo: only the sign correction
wrap360_no_mod(a) == IF a >= 0 THEN a ELSE a + 360

wrap360(a) ==
    LET r == PyMod(a, 360)
    IN  IF r >= 0 THEN r ELSE r + 360

wrap180(a) == PyMod(a + 180, 360) - 180

RECURSIVE SumSin(_)
SumSin(angles) ==
    IF angles = <<>> THEN 0 ELSE sinD(Head(angles)) + SumSin(Tail(angles))

RECURSIVE SumCos(_)
SumCos(angles) ==
    IF angles = <<>> THEN 0 ELSE cosD(Head(angles)) + SumCos(Tail(angles))

mean_angle_deg(angles_deg) ==
    LET s == SumSin(angles_deg)
        c == SumCos(angles_deg)
    IN  IF s = 0 /\ c = 0 THEN 0
        ELSE wrap360(atan2D(s, c))

azimut_xy(cam, pt) ==
    LET dx == pt.X - cam.X
        dy == pt.Y - cam.Y
    IN  wrap360(atan2D(dx, dy))

\* math.hypot(dx, dy) in thousandths
hypotM(dx, dy) == Isqrt((dx * dx + dy * dy) * 1000000)

inclinacion(cam, pt) ==
    LET dx == pt.X - cam.X
        dy == pt.Y - cam.Y
        dz == pt.Z - cam.Z
    IN  atan2D(dz * 1000, hypotM(dx, dy))

\* x, y, z in fixed point (Unit is one metre)
calc_xyz_from_angles(cam, ah_deg, av_deg, dist) ==
    LET dh == dist * cosD(av_deg)
        dz == dist * sinD(av_deg)
        dx == (dh * sinD(ah_deg)) \div Unit
        dy == (dh * cosD(ah_deg)) \div Unit
    IN  [X |-> cam.X * Unit + dx, Y |-> cam.Y * Unit + dy, Z |-> cam.Z * Unit + dz]

-----------------------------------------------------------------------------
(* Calibration core *)

\* the length check off by one: a single point is let through
CalibrateRaises_lt1(cfg) == Len(cfg.collimation_points) < 1

\* len(pts) < 2: calibrate raises ValueError
CalibrateRaises(cfg) == Len(cfg.collimation_points) < 2

\* one pass of the loop over pts: the diagnostics entry of pt
Diagnostic(cam, pt) ==
    LET ah_real == azimut_xy(cam, pt)
        av_real == inclinacion(cam, pt)
        delta_ah == wrap180(ah_real - pt.AH_obs)
        delta_av == av_real - pt.AV_obs
        dx == pt.X - cam.X
        dy == pt.Y - cam.Y
        dz == pt.Z - cam.Z
        dist_geom == Isqrt((dx * dx + dy * dy + dz * dz) * 10000)   \* hundredths
        dist_res == dist_geom - pt.D_obs * 100
    IN  [name |-> pt.name, AH_real |-> ah_real, AV_real |-> av_real,
         AH_obs |-> pt.AH_obs, AV_obs |-> pt.AV_obs,
         dAH |-> delta_ah, dAV |-> delta_av,
         Dist_geom |-> dist_geom, Dist_obs |-> pt.D_obs * 100, Dist_res |-> dist_res]

RECURSIVE SumSeq(_)
SumSeq(xs) == IF xs = <<>> THEN 0 ELSE Head(xs) + SumSeq(Tail(xs))

\* the dict calibrate returns when it does not raise
calibrate(cfg) ==
    LET cam == cfg.camera
        pts == cfg.collimation_points
        diagnostics == [i \in 1..Len(pts) |-> Diagnostic(cam, pts[i])]
        deltas_ah == [i \in 1..Len(pts) |-> diagnostics[i].dAH]
        deltas_av == [i \in 1..Len(pts) |-> diagnostics[i].dAV]
        deltas_ah_0360 == [i \in 1..Len(pts) |-> wrap360(deltas_ah[i])]
        ajuste_ah == wrap180(mean_angle_deg(deltas_ah_0360))
        ajuste_av == SumSeq(deltas_av) \div Len(deltas_av)
    IN  [ajuste_ah |-> ajuste_ah, ajuste_av |-> ajuste_av,
         diagnostics |-> diagnostics, n_points |-> Len(pts)]

\* the corrected azimuth left unnormalised
corrected_ah_no_wrap(ah_obs, ajuste_ah) == ah_obs + ajuste_ah

\* api_compute_point's corrected angles, from the biases it read
corrected_ah(ah_obs, ajuste_ah) == wrap360(ah_obs + ajuste_ah)

corrected_av(av_obs, ajuste_av) == av_obs + ajuste_av

-----------------------------------------------------------------------------
(* Inputs *)

SeqsUpTo(S, n) == UNION {[1..m -> S] : m \in 0..n}

Origin == [X |-> 0, Y |-> 0, Z |-> 0]

Cams == {Origin, [X |-> 1, Y |-> 1, Z |-> 0]}

\* surveyed points: name, true coordinates and measured distance
Targets ==
    { [name |-> "PT1", X |-> 0, Y |-> 1, Z |-> 0, D_obs |-> 1],
      [name |-> "PT2", X |-> 1, Y |-> 0, Z |-> 1, D_obs |-> 0],
      [name |-> "PT",  X |-> 2, Y |-> 2, Z |-> 0, D_obs |-> 3] }

\* the observation of target tg from cam by an instrument whose horizontal
\* reading is off by k and whose vertical reading is off by e
Observe(cam, tg, k, e) ==
    [name |-> tg.name, X |-> tg.X, Y |-> tg.Y, Z |-> tg.Z,
     AH_obs |-> wrap360(azimut_xy(cam, tg) + k),
     AV_obs |-> inclinacion(cam, tg) + e,
     D_obs |-> tg.D_obs]

\* every point observed with the same horizontal offset k and no vertical error
UniformCfg(cam, tgs, k) ==
    [camera |-> cam,
     collimation_points |-> [i \in 1..Len(tgs) |-> Observe(cam, tgs[i], k, 0)]]

\* each point observed with offsets of its own: os[i] = <<target, k, e>>
MixedCfg(cam, os) ==
    [camera |-> cam,
     collimation_points |->
        [i \in 1..Len(os) |-> Observe(cam, os[i][1], os[i][2], os[i][3])]]

\* cfg is a uniform-offset configuration with offset k
IsUniform(cfg, k) ==
    \A i \in 1..Len(cfg.collimation_points) :
        LET pt == cfg.collimation_points[i]
        IN  /\ pt.AH_obs = wrap360(azimut_xy(cfg.camera, pt) + k)
            /\ pt.AV_obs = inclinacion(cfg.camera, pt)

-----------------------------------------------------------------------------
(* Config handling, and the cache *)

NoFile == [exists |-> FALSE]

\* str(name).strip() or "PT"
NormName(name) == IF name = "" THEN "PT" ELSE name

\* what save_config writes to config.json for payload cfg
save_config(cfg) ==
    [exists |-> TRUE,
     cfg |-> [camera |-> cfg.camera,
              collimation_points |->
                 [i \in 1..Len(cfg.collimation_points) |->
                    [cfg.collimation_points[i] EXCEPT !.name = NormName(@)]]]]

\* dict.update: the keys of e replace or extend those of d
DictUpdate(d, e) ==
    [k \in DOMAIN d \cup DOMAIN e |-> IF k \in DOMAIN e THEN e[k] ELSE d[k]]

\* STATE.get(key, default)
DictGet(d, key, default) == IF key \in DOMAIN d THEN d[key] ELSE default

InitState ==
    [ajuste_ah |-> 0, ajuste_av |-> 0, diagnostics |-> <<>>, loaded |-> FALSE]

-----------------------------------------------------------------------------
(* Requests *)

Threads == 1..NThreads

IdleLoc == [op |-> "none"]

NoPre == [none |-> TRUE]

NoGood == [has |-> FALSE]

NoProbe == [kind |-> "none"]

\* configurations a client posts, and config.json may hold at start-up
CfgA == UniformCfg(Origin, <<CHOOSE t \in Targets : t.name = "PT1",
                            CHOOSE t \in Targets : t.name = "PT2">>, 5)

CfgB ==
    MixedCfg([X |-> 1, Y |-> 1, Z |-> 0],
             << <<CHOOSE t \in Targets : t.name = "PT1", 350, 2>>,
                <<[name |-> "", X |-> 2, Y |-> 2, Z |-> 0, D_obs |-> 0], 350, 4>> >>)

CfgOne ==
    UniformCfg([X |-> 1, Y |-> 1, Z |-> 0],
               <<CHOOSE t \in Targets : t.name = "PT2">>, 0)

CfgNone == [camera |-> Origin, collimation_points |-> <<>>]

PostedCfgs == {CfgA, CfgB, CfgOne, CfgNone}

Sightings ==
    { [AH_obs |-> 6, AV_obs |-> 0, D_obs |-> 2],
      [AH_obs |-> 355, AV_obs |-> 10, D_obs |-> 5] }

SetLoc(t, fields) == loc' = [loc EXCEPT ![t] = DictUpdate(@, fields)]

Goto(t, label) == pc' = [pc EXCEPT ![t] = label]

\* an exception leaves the handler: Flask answers 500
Raise(t, err) ==
    /\ Goto(t, "failed")
    /\ SetLoc(t, [err |-> err])

\* where a handler continues when ensure_state returns
AfterEnsure(op) == IF op = "get_config" THEN "L210" ELSE "L238"

Begin(t, op, payload, label) ==
    /\ pc[t] = "idle"
    /\ Goto(t, label)
    /\ loc' = [loc EXCEPT ![t] = [op |-> op, payload |-> payload]]
    /\ pre' = [pre EXCEPT ![t] = State]
    /\ UNCHANGED <<file, State, good, published, probe>>

StartGetConfig(t) == Begin(t, "get_config", <<>>, "L207")

StartSetConfig(t, cfg) == Begin(t, "set_config", cfg, "L219")

StartCalibrate(t) == Begin(t, "calibrate", <<>>, "L229")

StartComputePoint(t, s) == Begin(t, "compute_point", s, "L237")

\* api_get_config: cfg = load_config()
GetLoad(t) ==
    /\ pc[t] = "L207"
    /\ IF file.exists
       THEN Goto(t, "L191") /\ SetLoc(t, [cfg |-> file.cfg])
       ELSE Raise(t, "FileNotFoundError")
    /\ UNCHANGED <<file, State, pre, good, published, probe>>

\* api_compute_point: ensure_state()
ComputeEnsure(t) ==
    /\ pc[t] = "L237"
    /\ Goto(t, "L191")
    /\ UNCHANGED <<file, State, loc, pre, good, published, probe>>

\* ensure_state with its test inverted: if STATE["loaded"]
EnsureCheck_inverted(t) ==
    /\ pc[t] = "L191"
    /\ Goto(t, IF ~State.loaded THEN AfterEnsure(loc[t].op) ELSE "L192")
    /\ UNCHANGED <<file, State, loc, pre, good, published, probe>>

\* ensure_state: if not STATE["loaded"]
EnsureCheck(t) ==
    /\ pc[t] = "L191"
    /\ Goto(t, IF State.loaded THEN AfterEnsure(loc[t].op) ELSE "L192")
    /\ UNCHANGED <<file, State, loc, pre, good, published, probe>>

\* api_set_config: save_config(payload)
SetSave(t) ==
    /\ pc[t] = "L219"
    /\ file' = save_config(loc[t].payload)
    /\ Goto(t, "L221")
    /\ UNCHANGED <<State, loc, pre, good, published, probe>>

\* LoadCal with the cache cleared when calibrate raises
LoadCal_clears(t) ==
    /\ pc[t] \in {"L192", "L221", "L229"}
    /\ IF ~file.exists THEN Raise(t, "FileNotFoundError") /\ UNCHANGED State
       ELSE IF CalibrateRaises(file.cfg)
            THEN Raise(t, "ValueError") /\ State' = InitState
       ELSE /\ Goto(t, CASE pc[t] = "L192" -> "L194"
                         [] pc[t] = "L221" -> "L223"
                         [] pc[t] = "L229" -> "L231")
            /\ SetLoc(t, [cal_cfg |-> file.cfg, cal |-> calibrate(file.cfg)])
            /\ UNCHANGED State
    /\ UNCHANGED <<file, pre, good, published, probe>>

\* cfg = load_config(); cal = calibrate(cfg)
\* in ensure_state, api_set_config and api_calibrate
LoadCal(t) ==
    /\ pc[t] \in {"L192", "L221", "L229"}
    /\ IF ~file.exists THEN Raise(t, "FileNotFoundError")
       ELSE IF CalibrateRaises(file.cfg) THEN Raise(t, "ValueError")
       ELSE /\ Goto(t, CASE pc[t] = "L192" -> "L194"
                         [] pc[t] = "L221" -> "L223"
                         [] pc[t] = "L229" -> "L231")
            /\ SetLoc(t, [cal_cfg |-> file.cfg, cal |-> calibrate(file.cfg)])
    /\ UNCHANGED <<file, State, pre, good, published, probe>>

\* Publish patching the two biases only, not the whole result
Publish_biases_only(t) ==
    /\ pc[t] \in {"L194", "L223", "L231"}
    /\ State' = [State EXCEPT !.ajuste_ah = loc[t].cal.ajuste_ah,
                              !.ajuste_av = loc[t].cal.ajuste_av]
    /\ good' = [has |-> TRUE, cal |-> loc[t].cal]
    /\ published' = published \cup {loc[t].cal}
    /\ Goto(t, CASE pc[t] = "L194" -> "L195"
                 [] pc[t] = "L223" -> "L224"
                 [] pc[t] = "L231" -> "L232")
    /\ UNCHANGED <<file, loc, pre, probe>>

\* STATE.update(cal)
Publish(t) ==
    /\ pc[t] \in {"L194", "L223", "L231"}
    /\ State' = DictUpdate(State, loc[t].cal)
    /\ good' = [has |-> TRUE, cal |-> loc[t].cal]
    /\ published' = published \cup {loc[t].cal}
    /\ Goto(t, CASE pc[t] = "L194" -> "L195"
                 [] pc[t] = "L223" -> "L224"
                 [] pc[t] = "L231" -> "L232")
    /\ UNCHANGED <<file, loc, pre, probe>>

\* STATE["loaded"] = True, and the return that follows it
SetLoaded(t) ==
    /\ pc[t] \in {"L195", "L224", "L232"}
    /\ State' = [State EXCEPT !.loaded = TRUE]
    /\ IF pc[t] = "L195"
       THEN Goto(t, AfterEnsure(loc[t].op)) /\ UNCHANGED loc
       ELSE Goto(t, "done") /\ SetLoc(t, [resp |-> [ok |-> TRUE, calibration |-> loc[t].cal]])
    /\ UNCHANGED <<file, pre, good, published, probe>>

\* api_get_config: the four reads of STATE that build the response
GetRead(t) ==
    /\ pc[t] \in {"L210", "L211", "L212", "L213"}
    /\ CASE pc[t] = "L210" ->
              Goto(t, "L211") /\ SetLoc(t, [r_ah |-> State.ajuste_ah])
         [] pc[t] = "L211" ->
              Goto(t, "L212") /\ SetLoc(t, [r_av |-> State.ajuste_av])
         [] pc[t] = "L212" ->
              Goto(t, "L213") /\ SetLoc(t, [r_diag |-> State.diagnostics])
         [] pc[t] = "L213" ->
              /\ Goto(t, "done")
              /\ SetLoc(t, [resp |->
                    [ok |-> TRUE, config |-> loc[t].cfg,
                     calibration |->
                        [ajuste_ah |-> loc[t].r_ah, ajuste_av |-> loc[t].r_av,
                         diagnostics |-> loc[t].r_diag,
                         n_points |-> DictGet(State, "n_points", 0)]]])
    /\ UNCHANGED <<file, State, pre, good, published, probe>>

\* api_compute_point: cfg = load_config(); cam = cfg["camera"]
ComputeLoad(t) ==
    /\ pc[t] = "L238"
    /\ IF file.exists
       THEN Goto(t, "L246") /\ SetLoc(t, [cfg |-> file.cfg])
       ELSE Raise(t, "FileNotFoundError")
    /\ UNCHANGED <<file, State, pre, good, published, probe>>

\* ah_corr = wrap360(ah_obs + float(STATE["ajuste_ah"]))
ComputeReadAH(t) ==
    /\ pc[t] = "L246"
    /\ Goto(t, "L247")
    /\ SetLoc(t, [used_ah |-> State.ajuste_ah, loaded_at_read |-> State.loaded,
                  ah_corr |-> corrected_ah(loc[t].payload.AH_obs, State.ajuste_ah)])
    /\ UNCHANGED <<file, State, pre, good, published, probe>>

\* av_corr = av_obs + float(STATE["ajuste_av"]); x, y, z = calc_xyz_from_angles(...)
ComputeReadAV(t) ==
    /\ pc[t] = "L247"
    /\ Goto(t, "L258")
    /\ LET av_corr == corrected_av(loc[t].payload.AV_obs, State.ajuste_av)
       IN  SetLoc(t, [used_av |-> State.ajuste_av, av_corr |-> av_corr,
                      xyz |-> calc_xyz_from_angles(loc[t].cfg.camera, loc[t].ah_corr,
                                                   av_corr, loc[t].payload.D_obs)])
    /\ UNCHANGED <<file, State, pre, good, published, probe>>

\* the response's "calibration": STATE["ajuste_ah"], then STATE["ajuste_av"]
ComputeReport(t) ==
    /\ pc[t] \in {"L258", "L258b"}
    /\ IF pc[t] = "L258"
       THEN Goto(t, "L258b") /\ SetLoc(t, [r_ah |-> State.ajuste_ah])
       ELSE /\ Goto(t, "done")
            /\ SetLoc(t, [resp |->
                  [ok |-> TRUE,
                   result |-> [X |-> loc[t].xyz.X, Y |-> loc[t].xyz.Y, Z |-> loc[t].xyz.Z,
                               AH_obs |-> loc[t].payload.AH_obs,
                               AV_obs |-> loc[t].payload.AV_obs,
                               D_obs |-> loc[t].payload.D_obs,
                               AH_corr |-> loc[t].ah_corr, AV_corr |-> loc[t].av_corr],
                   calibration |-> [ajuste_ah |-> loc[t].r_ah,
                                    ajuste_av |-> State.ajuste_av]]])
    /\ UNCHANGED <<file, State, pre, good, published, probe>>

\* the response is sent and the thread serves the next request
Finish(t) ==
    /\ pc[t] \in {"done", "failed"}
    /\ Goto(t, "idle")
    /\ loc' = [loc EXCEPT ![t] = IdleLoc]
    /\ pre' = [pre EXCEPT ![t] = NoPre]
    /\ UNCHANGED <<file, State, good, published, probe>>

Step(t) ==
    \/ GetLoad(t)
    \/ ComputeEnsure(t)
    \/ EnsureCheck(t)
    \/ SetSave(t)
    \/ LoadCal(t)
    \/ Publish(t)
    \/ SetLoaded(t)
    \/ GetRead(t)
    \/ ComputeLoad(t)
    \/ ComputeReadAH(t)
    \/ ComputeReadAV(t)
    \/ ComputeReport(t)
    \/ Finish(t)

Start(t) ==
    \/ StartGetConfig(t)
    \/ \E cfg \in PostedCfgs : StartSetConfig(t, cfg)
    \/ StartCalibrate(t)
    \/ \E s \in Sightings : StartComputePoint(t, s)

Init ==
    /\ file \in {NoFile} \cup {save_config(cfg) : cfg \in PostedCfgs}
    /\ State = InitState
    /\ pc = [t \in Threads |-> "idle"]
    /\ loc = [t \in Threads |-> IdleLoc]
    /\ pre = [t \in Threads |-> NoPre]
    /\ good = NoGood
    /\ published = {}
    /\ probe = NoProbe

\* one request at a time: a request starts when no other is in progress
Next ==
    \E t \in Threads :
        \/ (\A u \in Threads : pc[u] = "idle") /\ Start(t)
        \/ Step(t)

Spec == Init /\ [][Next]_vars

\* requests served by concurrent threads (Flask's threaded server)
NextConc == \E t \in Threads : Start(t) \/ Step(t)

InitConc ==
    /\ file = save_config(CfgA)
    /\ State = InitState
    /\ pc = [t \in Threads |-> "idle"]
    /\ loc = [t \in Threads |-> IdleLoc]
    /\ pre = [t \in Threads |-> NoPre]
    /\ good = NoGood
    /\ published = {}
    /\ probe = NoProbe

SpecConc == InitConc /\ [][NextConc]_vars

-----------------------------------------------------------------------------
(* The angle utilities on their own *)

AngleInputs == (-MaxDeg)..MaxDeg

Turns == (-MaxTurns)..MaxTurns

Quiet ==
    /\ file = NoFile
    /\ State = InitState
    /\ pc = [t \in Threads |-> "idle"]
    /\ loc = [t \in Threads |-> IdleLoc]
    /\ pre = [t \in Threads |-> NoPre]
    /\ good = NoGood
    /\ published = {}

InitAngle ==
    /\ Quiet
    /\ probe \in {[kind |-> "angle", a |-> a, k |-> k, done360 |-> FALSE,
                   done180 |-> FALSE] : a \in AngleInputs, k \in Turns}

ApplyWrap360 ==
    /\ probe.kind = "angle"
    /\ ~probe.done360
    /\ probe' = DictUpdate(probe, [done360 |-> TRUE, w360 |-> wrap360(probe.a),
                                   w360twice |-> wrap360(wrap360(probe.a))])
    /\ UNCHANGED <<file, State, pc, loc, pre, good, published>>

ApplyWrap180 ==
    /\ probe.kind = "angle"
    /\ ~probe.done180
    /\ probe' = DictUpdate(probe, [done180 |-> TRUE, w180 |-> wrap180(probe.a),
                                   w180k |-> wrap180(probe.a + 360 * probe.k)])
    /\ UNCHANGED <<file, State, pc, loc, pre, good, published>>

NextAngle == ApplyWrap360 \/ ApplyWrap180

SpecAngle == InitAngle /\ [][NextAngle]_vars

-----------------------------------------------------------------------------
(* calibrate and the angle correction on their own *)

Offsets == 0..359

Jitter == {0, 90, 180}

VErr == {0, 12}

\* raw horizontal readings of the sighting to reconstruct
SightAH == {0, 1, 90, 179, 180, 359}

\* the input of calibrate; k is the offset of a uniform cfg
CalProbe(cfg, uniform, k) ==
    [kind |-> "cal", stage |-> "input", cfg |-> cfg, uniform |-> uniform, k |-> k]

InitCal ==
    /\ Quiet
    /\ \/ \E cam \in Cams, tgs \in SeqsUpTo(Targets, MaxPts), k \in Offsets :
             probe = CalProbe(UniformCfg(cam, tgs, k), TRUE, k)
       \/ \E cam \in Cams, os \in SeqsUpTo(Targets \X Jitter \X VErr, MaxPts) :
             probe = CalProbe(MixedCfg(cam, os), FALSE, 0)

ApplyCalibrate ==
    /\ probe.kind = "cal"
    /\ probe.stage = "input"
    /\ probe' = IF CalibrateRaises(probe.cfg)
                THEN DictUpdate(probe, [stage |-> "raised", err |-> "ValueError"])
                ELSE DictUpdate(probe, [stage |-> "calibrated",
                                        cal |-> calibrate(probe.cfg)])
    /\ UNCHANGED <<file, State, pc, loc, pre, good, published>>

ApplyCorrection ==
    /\ probe.kind = "cal"
    /\ probe.stage = "calibrated"
    /\ \E ah \in SightAH :
          probe' = DictUpdate(probe,
                      [stage |-> "corrected", AH_obs |-> ah,
                       ah_corr |-> corrected_ah(ah, probe.cal.ajuste_ah),
                       av_corr |-> corrected_av(0, probe.cal.ajuste_av)])
    /\ UNCHANGED <<file, State, pc, loc, pre, good, published>>

NextCal == ApplyCalibrate \/ ApplyCorrection

SpecCal == InitCal /\ [][NextCal]_vars

-----------------------------------------------------------------------------
(* Properties of the angle utilities and of calibrate *)

AngleDone180 == probe.kind = "angle" /\ probe.done180

AngleDone360 == probe.kind = "angle" /\ probe.done360

Calibrated == probe.kind = "cal" /\ probe.stage \in {"calibrated", "corrected"}

NPts == Len(probe.cfg.collimation_points)

\* C5: wrap180(a) is the representative of a modulo 360 in (-180, 180]:
\* greater than -180, at most 180, congruent to a, and unchanged when a
\* whole number of turns is added to a.
C5_Wrap180InHalfOpenInterval ==
    AngleDone180 =>
        /\ probe.w180 > -180
        /\ probe.w180 <= 180
        /\ (probe.w180 - probe.a) % 360 = 0
        /\ probe.w180k = probe.w180

\* C6: wrap360(a) is the representative of a modulo 360 in [0, 360): at
\* least 0, less than 360, congruent to a, and wrap360 applied to it
\* returns it.
C6_Wrap360InRangeIdempotent ==
    AngleDone360 =>
        /\ probe.w360 >= 0
        /\ probe.w360 < 360
        /\ (probe.w360 - probe.a) % 360 = 0
        /\ probe.w360twice = probe.w360

\* a negative multiple of 360 has been wrapped to 0
C6_Witness == AngleDone360 /\ probe.a = -360 /\ probe.w360 = 0

\* C3: calibrate raises exactly when the list of collimation points has
\* length 0 or 1; for every longer list it returns a result whose n_points
\* is the length of the list.
C3_RaisesIffFewerThanTwo ==
    (probe.kind = "cal" /\ probe.stage # "input") =>
        /\ (probe.stage = "raised") <=> (NPts \in {0, 1})
        /\ (probe.stage # "raised") => (NPts >= 2 /\ probe.cal.n_points = NPts)

\* calibrate has refused a list of exactly one point
C3_Witness ==
    /\ probe.kind = "cal"
    /\ probe.stage = "raised"
    /\ probe.err = "ValueError"
    /\ NPts = 1

\* C7: every calibration result has ajuste_ah greater than -180 and at most
\* 180, also when every horizontal residual is half a turn.
C7_AjusteAhInHalfOpenInterval ==
    Calibrated => (probe.cal.ajuste_ah > -180 /\ probe.cal.ajuste_ah <= 180)

\* C8: when every collimation point is observed with the same horizontal
\* offset k and its true elevation, calibrate yields ajuste_ah = wrap180(-k)
\* and ajuste_av = 0, and the corrected azimuth of a sighting read as
\* AH_obs is the true azimuth AH_obs - k, taken in [0, 360).
C8_UniformOffsetCancelled ==
    (Calibrated /\ probe.uniform /\ IsUniform(probe.cfg, probe.k)) =>
        /\ probe.cal.ajuste_ah = wrap180(-probe.k)
        /\ probe.cal.ajuste_av = 0
        /\ (probe.stage = "corrected") =>
              /\ probe.ah_corr = (probe.AH_obs - probe.k) % 360
              /\ probe.ah_corr \in 0..359

\* an offset of 5 is cancelled on a sighting read as 1: the sum crosses 0
C8_Witness ==
    /\ probe.kind = "cal"
    /\ probe.stage = "corrected"
    /\ NPts >= 2
    /\ probe.k = 5
    /\ IsUniform(probe.cfg, probe.k)
    /\ probe.AH_obs = 1
    /\ probe.ah_corr = 356

-----------------------------------------------------------------------------
(* Properties of the cache and of the handlers *)

\* the published calibration: the four fields calibrate returns
Cal4(d) ==
    [ajuste_ah |-> d.ajuste_ah, ajuste_av |-> d.ajuste_av,
     diagnostics |-> d.diagnostics, n_points |-> DictGet(d, "n_points", 0)]

IsOp(t, ops) == loc[t].op \in ops

ComputeDone(t) == pc[t] = "done" /\ IsOp(t, {"compute_point"})

\* thread t has read STATE["ajuste_ah"] at line 246
HasReadAH(t) == pc[t] \in {"L247", "L258", "L258b", "done"} /\ IsOp(t, {"compute_point"})

\* thread t has read STATE["ajuste_av"] at line 247
HasReadAV(t) == pc[t] \in {"L258", "L258b", "done"} /\ IsOp(t, {"compute_point"})

CalibrateFailed(t) == pc[t] = "failed" /\ loc[t].err = "ValueError"

\* C1: with one request at a time, a request whose calibrate step raises
\* leaves STATE (ajuste_ah, ajuste_av, diagnostics, n_points, loaded) as it
\* was when the request began, and api_compute_point computes with the
\* biases of the last calibrate result that was published.
C1_FailedCalibrationKeepsState ==
    \A t \in Threads :
        /\ CalibrateFailed(t) => State = pre[t]
        /\ ComputeDone(t) =>
              /\ good.has
              /\ loc[t].used_ah = good.cal.ajuste_ah
              /\ loc[t].used_av = good.cal.ajuste_av
              /\ Cal4(State) = good.cal

\* a recalibration has failed after an earlier one was published
C1_Witness ==
    \E t \in Threads :
        /\ CalibrateFailed(t)
        /\ IsOp(t, {"set_config"})
        /\ good.has
        /\ State.loaded
        /\ Cal4(State) = good.cal

\* C2: under concurrent requests, the two biases api_compute_point computes
\* with, and the two it reports back, belong to one and the same published
\* calibrate result.
C2_NoTornBiases ==
    \A t \in Threads :
        ComputeDone(t) =>
            /\ \E c \in published :
                  /\ loc[t].used_ah = c.ajuste_ah
                  /\ loc[t].used_av = c.ajuste_av
            /\ \E c \in published :
                  /\ loc[t].resp.calibration.ajuste_ah = c.ajuste_ah
                  /\ loc[t].resp.calibration.ajuste_av = c.ajuste_av

\* C4: with one request at a time, whenever api_compute_point has read a
\* bias from STATE, STATE was loaded at that read and the value is that of
\* the last published calibrate result, never the start-up placeholder.
C4_ReconstructionOnlyAfterCalibration ==
    \A t \in Threads :
        /\ HasReadAH(t) =>
              /\ loc[t].loaded_at_read
              /\ State.loaded
              /\ good.has
              /\ loc[t].used_ah = good.cal.ajuste_ah
        /\ HasReadAV(t) => loc[t].used_av = good.cal.ajuste_av

\* a request to compute a point arrived before any calibration, calibrated
\* lazily and computed its point
C4_Witness ==
    \E t \in Threads :
        /\ ComputeDone(t)
        /\ ~pre[t].loaded
        /\ loc[t].loaded_at_read
        /\ loc[t].used_ah = good.cal.ajuste_ah

\* the steps C9 allows thread t
C9_Step(t) ==
    \* ensure_state goes on to calibrate only when loaded is false
    /\ (pc[t] = "L191" /\ pc'[t] = "L192") => ~State.loaded
    /\ (pc'[t] \in {"L192", "L194", "L195"}) => ~State.loaded
    \* loaded never returns to false
    /\ State.loaded => State'.loaded
    \* once loaded, api_compute_point and api_get_config leave the four fields
    /\ (State.loaded /\ IsOp(t, {"compute_point", "get_config"}))
          => Cal4(State') = Cal4(State)
    \* a successful api_calibrate or api_set_config leaves one whole result
    /\ (pc[t] # "done" /\ pc'[t] = "done" /\ IsOp(t, {"calibrate", "set_config"}))
          => /\ Cal4(State') = loc[t].cal
             /\ Cal4(State') = calibrate(file'.cfg)

\* C9: with one request at a time, ensure_state calibrates only when loaded
\* is false; loaded never becomes false again; once loaded,
\* api_compute_point and api_get_config leave ajuste_ah, ajuste_av,
\* diagnostics and n_points unchanged; and when api_calibrate or
\* api_set_config succeeds the four fields are those of one calibrate
\* result.
C9_LazyOnceThenWholesale == [][\A t \in Threads : C9_Step(t)]_vars

\* api_set_config has replaced an earlier calibration by another
C9_Witness ==
    \E t \in Threads :
        /\ pc[t] = "done"
        /\ IsOp(t, {"set_config"})
        /\ pre[t].loaded
        /\ Cal4(State) # Cal4(pre[t])
        /\ Cal4(State) = loc[t].cal

\* C10: whenever api_compute_point computes a point, the biases it took
\* from STATE are those calibrate yields for the configuration it loaded in
\* the same request.
C10_BiasesMatchLoadedConfig ==
    \A t \in Threads :
        ComputeDone(t) =>
            /\ ~CalibrateRaises(loc[t].cfg)
            /\ loc[t].used_ah = calibrate(loc[t].cfg).ajuste_ah
            /\ loc[t].used_av = calibrate(loc[t].cfg).ajuste_av

====
